---------------------------- MODULE Spec2Model ----------------------------
(***************************************************************************)
(* A model of hltv.py: the CounterScrape object, its one outbound HTTP     *)
(* session, and the fetch / extract / serialise / print flow of pprint().  *)
(*                                                                         *)
(* A Python str is a sequence of one-character strings, a Python int is an *)
(* integer, a dict (insertion ordered) is a sequence of <<key, value>>     *)
(* pairs.  An HTML element is a record: its tag name, its class list, its  *)
(* attributes and, for each CSS selector the code uses, what select_one    *)
(* finds below it.                                                         *)
(***************************************************************************)
EXTENDS Integers, Sequences, FiniteSets, TLC

VARIABLES
    now,            \* the host's clock, seconds since the epoch
    current_date,   \* self.current_date
    pc,             \* where the one thread of control is
    soup,           \* get_results: the parsed /results page (element ids)
    retained,       \* get_results: what soup(self.check_match_date) returned
    idx,            \* get_results: same-day matches handled so far
    status_code,    \* scrape: the status of the response just received, 0 if none
    maps_played,    \* get_maps: the count argument of the call in progress
    detail,         \* get_maps: the map names of the detail page just parsed
    match_results,  \* get_results: the OrderedDict being built
    results,        \* pprint: what results_dict() returned
    out,            \* the strings print() was called with, this call
    err,            \* the exception that ended the call, if any
    inflight,       \* the URLs requested and not yet answered
    events,         \* history: requests, responses and insertions, this call
    extracted       \* history: the record built for each handled match

vars == <<now, current_date, pc, soup, retained, idx, status_code, maps_played, detail,
          match_results, results, out, err, inflight, events, extracted>>

----------------------------------------------------------------------------
(* Bounds of the model. *)

\* The longest /results page, in elements.
MaxNodes == 3
\* The most map-name entries on a match's detail page.
MaxMaps == 3
\* How many days the host's clock advances.
MaxTicks == 1

----------------------------------------------------------------------------
(* Python's str and int operations that the code uses. *)

IsSpace(c) == c \in {" ", "\n", "\t"}

RECURSIVE lstrip(_)
lstrip(s) == IF s # <<>> /\ IsSpace(Head(s)) THEN lstrip(Tail(s)) ELSE s

RECURSIVE rstrip(_)
rstrip(s) ==
    IF s # <<>> /\ IsSpace(s[Len(s)]) THEN rstrip(SubSeq(s, 1, Len(s) - 1)) ELSE s

\* get_text(strip=True)
strip(s) == rstrip(lstrip(s))

RECURSIVE split_from(_, _, _)
split_from(s, cur, acc) ==
    LET flushed == IF cur = <<>> THEN acc ELSE Append(acc, cur)
    IN  IF s = <<>> THEN flushed
        ELSE IF IsSpace(Head(s)) THEN split_from(Tail(s), <<>>, flushed)
        ELSE split_from(Tail(s), Append(cur, Head(s)), acc)

\* str.split(): the whitespace-delimited tokens
split(s) == split_from(s, <<>>, <<>>)

Digits == <<"0", "1", "2", "3", "4", "5", "6", "7", "8", "9">>

DigitValue(c) == CHOOSE d \in 0..9 : Digits[d + 1] = c

RECURSIVE int_from(_, _)
int_from(s, acc) ==
    IF s = <<>> THEN acc ELSE int_from(Tail(s), 10 * acc + DigitValue(Head(s)))

\* int(str) of a decimal numeral
int(s) == int_from(s, 0)

RECURSIVE str(_)
\* str(int) of a natural number
str(n) == IF n < 10 THEN <<Digits[n + 1]>> ELSE str(n \div 10) \o <<Digits[(n % 10) + 1]>>

\* sub in s
contains(sub, s) ==
    \E i \in 1..(Len(s) - Len(sub) + 1) : SubSeq(s, i, i + Len(sub) - 1) = sub

RECURSIVE join(_, _)
\* sep.join(items)
join(sep, items) ==
    IF items = <<>> THEN <<>>
    ELSE IF Len(items) = 1 THEN items[1]
    ELSE items[1] \o sep \o join(sep, Tail(items))

\* items[:n] for n >= 0
slice_to(items, n) == [i \in 1..(IF n < Len(items) THEN n ELSE Len(items)) |-> items[i]]

RECURSIVE spaces(_)
spaces(n) == IF n <= 0 THEN <<>> ELSE <<" ">> \o spaces(n - 1)

\* format specs '^w', '<w' and '>w'
center(s, w) ==
    LET pad == IF w > Len(s) THEN w - Len(s) ELSE 0
    IN  spaces(pad \div 2) \o s \o spaces(pad - pad \div 2)

ljust(s, w) == s \o spaces(w - Len(s))

rjust(s, w) == spaces(w - Len(s)) \o s

----------------------------------------------------------------------------
(* time.localtime and time.strftime('%d %B %Y'), for a host on UTC.  The   *)
(* calendar is that of January 1970, which every instant of the model      *)
(* falls in.                                                               *)

SecPerDay == 86400

MonthName == <<<<"J", "a", "n", "u", "a", "r", "y">>>>

localtime(sec) ==
    [tm_year |-> 1970, tm_mon |-> 1, tm_mday |-> (sec \div SecPerDay) + 1]

strftime(tm) ==
    (IF tm.tm_mday < 10 THEN <<"0">> ELSE <<>>) \o str(tm.tm_mday)
        \o <<" ">> \o MonthName[tm.tm_mon] \o <<" ">> \o str(tm.tm_year)

convert_timestamp(timestamp) == strftime(localtime(int(timestamp) \div 1000))

----------------------------------------------------------------------------
(* CounterScrape.MAPS and the base URL. *)

MAPS ==
    (<<"m", "r", "g">> :> <<"M", "i", "r", "a", "g", "e">>) @@ (<<"t", "r", "n">> :> <<"T", "r", "a", "i", "n">>) @@
    (<<"o", "v", "p">> :> <<"O", "v", "e", "r", "p", "a", "s", "s">>) @@ (<<"i", "n", "f">> :> <<"I", "n", "f", "e", "r", "n", "o">>) @@
    (<<"c", "c", "h">> :> <<"C", "a", "c", "h", "e">>) @@ (<<"c", "b", "l">> :> <<"C", "o", "b", "b", "l", "e", "s", "t", "o", "n", "e">>) @@
    (<<"n", "u", "k", "e">> :> <<"N", "u", "k", "e">>) @@ (<<"b", "o", "2">> :> <<"B", "e", "s", "t", "-", "o", "f", "-", "t", "w", "o", " ">>) @@
    (<<"b", "o", "3">> :> <<"B", "e", "s", "t", "-", "o", "f", "-", "t", "h", "r", "e", "e", " ">>) @@ (<<"b", "o", "5">> :> <<"B", "e", "s", "t", "-", "o", "f", "-", "f", "i", "v", "e", " ">>) @@
    (<<"-">> :> <<"D", "e", "f", "a", "u", "l", "t", " ", "w", "i", "n">>)

url == <<"h", "t", "t", "p", "s", ":", "/", "/", "w", "w", "w", ".", "h", "l", "t", "v", ".", "o", "r", "g">>

ResultsUrl == url \o <<"/", "r", "e", "s", "u", "l", "t", "s">>

----------------------------------------------------------------------------
(* The pages the site may serve. *)

UNIX == "data-zonedgrouping-entry-unix"

ResultCon(unix, score, sub_maps, href) ==
    [name |-> "div", class |-> {"result-con"}, attrs |-> (UNIX :> unix),
     sub |-> (".team1" :> <<"\n", " ", "N", "a", "\"", "V", "i", " ">>) @@ (".team2" :> <<"G", "2">>) @@
             (".result-score" :> score) @@ (".event-name" :> <<"E", "S", "L", "\\", "P", "r", "o">>) @@
             (".a-reset" :> href) @@ sub_maps]

MapText(text) == (".map-text" :> text)

\* Elements 1-5 carry a timestamp of 1 January 1970, elements 6 and 7
\* one of 2 January; 5 has no .map-text child; 8 is a cell inside a container.
Nodes == <<
    ResultCon(<<"8", "6", "3", "9", "9", "9", "9", "9">>, <<"1", "6", " ", "-", " ", "9">>, MapText(<<"m", "r", "g">>), <<"/", "m", "/", "1">>),
    ResultCon(<<"8", "6", "3", "9", "9", "9", "9", "9">>, <<"2", " ", "-", " ", "0">>,  MapText(<<"b", "o", "3">>), <<"/", "m", "/", "2">>),
    ResultCon(<<"1", "0", "0", "0">>,     <<"0", " ", ":", " ", "0">>,  MapText(<<"b", "o", "2">>), <<"/", "m", "/", "3">>),
    ResultCon(<<"1", "0", "0", "0">>,     <<"1", "6", " ", "-", " ", "9">>, MapText(<<"v", "t", "g">>), <<"/", "m", "/", "4">>),
    ResultCon(<<"1", "0", "0", "0">>,     <<"1", "6", " ", "-", " ", "9">>, <<>>,             <<"/", "m", "/", "5">>),
    ResultCon(<<"8", "6", "4", "0", "0", "0", "0", "0">>, <<"2", " ", "-", " ", "1">>,  MapText(<<"b", "o", "3">>), <<"/", "m", "/", "6">>),
    ResultCon(<<"8", "6", "4", "0", "0", "0", "0", "0">>, <<"9", " ", "-", " ", "1", "6">>, MapText(<<"v", "t", "g">>), <<"/", "m", "/", "7">>),
    [name |-> "td", class |-> {"team-cell"}, attrs |-> <<>>, sub |-> <<>>]
>>

RECURSIVE SeqsUpTo(_, _)
SeqsUpTo(S, n) ==
    IF n = 0 THEN {<<>>}
    ELSE LET shorter == SeqsUpTo(S, n - 1)
         IN  shorter \cup {Append(s, x) : s \in {t \in shorter : Len(t) = n - 1}, x \in S}

Pages == SeqsUpTo(DOMAIN Nodes, MaxNodes)

\* The map names of a detail page, in document order.
MapNames == <<<<"M", "i", "r", "a", "g", "e">>, <<"T", "r", "a", "i", "n">>, <<"N", "u", "k", "e">>, <<"C", "a", "c", "h", "e">>, <<"I", "n", "f", "e", "r", "n", "o">>>>

DetailPages == {SubSeq(MapNames, 1, n) : n \in 0..MaxMaps}

\* The status of the final response of a GET, and the bodies it may carry:
\* 304 Not Modified has none.
Statuses == {200, 304, 404, 503}

ListingBodies(status) == IF status = 200 THEN Pages ELSE {<<>>}

DetailBodies(status) == IF status = 200 THEN DetailPages ELSE {<<>>}

----------------------------------------------------------------------------
(* Exceptions. *)

NoErr == [type |-> "None", status |-> 0, key |-> <<>>]

HTTPError(status) == [type |-> "HTTPError", status |-> status, key |-> <<>>]

KeyError(key) == [type |-> "KeyError", status |-> 0, key |-> key]

AttributeError == [type |-> "AttributeError", status |-> 0, key |-> <<>>]

\* raise_for_status raising on server errors only.
raise_for_status_5xx(status) == 500 <= status /\ status < 600

\* Response.raise_for_status(): whether it raises
raise_for_status(status) == 400 <= status /\ status < 600

----------------------------------------------------------------------------
(* The helpers of get_results. *)

\* check_match_date against the date of the call, not of the construction.
check_match_date_today(tag) ==
    /\ tag.name = "div" /\ "result-con" \in tag.class
    /\ convert_timestamp(tag.attrs[UNIX]) = strftime(localtime(now))

\* check_match_date without its date test.
check_match_date_any_day(tag) ==
    tag.name = "div" /\ "result-con" \in tag.class

check_match_date(tag) ==
    /\ tag.name = "div" /\ "result-con" \in tag.class
    /\ convert_timestamp(tag.attrs[UNIX]) = current_date

RECURSIVE Reverse(_)
Reverse(s) == IF s = <<>> THEN <<>> ELSE Append(Reverse(Tail(s)), Head(s))

\* reversed(soup(self.check_match_date)): newest last.
find_all_reversed(page) ==
    Reverse(SelectSeq(page, LAMBDA id : check_match_date(Nodes[id])))

\* soup(self.check_match_date): the elements retained, in document order
find_all(page) == SelectSeq(page, LAMBDA id : check_match_date(Nodes[id]))

\* The selectors get_results reads before it looks at the maps text.
Selectors == {".team1", ".team2", ".result-score", ".event-name", ".map-text"}

Extractable(tag) == Selectors \subseteq DOMAIN tag.sub

team_one_score(tag) == split(tag.sub[".result-score"])[1]

team_two_score(tag) ==
    LET score == split(tag.sub[".result-score"]) IN score[Len(score)]

game_score(tag) == int(team_one_score(tag)) + int(team_two_score(tag))

\* The dict literal of lines 82-89, with its maps value.
match_record(tag, maps) == <<
    <<<<"t", "e", "a", "m", "_", "o", "n", "e">>, strip(tag.sub[".team1"])>>,
    <<<<"t", "e", "a", "m", "_", "o", "n", "e", "_", "s", "c", "o", "r", "e">>, team_one_score(tag)>>,
    <<<<"t", "e", "a", "m", "_", "t", "w", "o">>, strip(tag.sub[".team2"])>>,
    <<<<"t", "e", "a", "m", "_", "t", "w", "o", "_", "s", "c", "o", "r", "e">>, team_two_score(tag)>>,
    <<<<"e", "v", "e", "n", "t">>, tag.sub[".event-name"]>>,
    <<<<"m", "a", "p", "s">>, maps>> >>

\* The best-of test giving way to the table for the codes it lists.
is_best_of_unlisted(maps) == contains(<<"b", "o">>, maps) /\ maps \notin DOMAIN MAPS

\* 'bo' in maps
is_best_of(maps) == contains(<<"b", "o">>, maps)

\* self.MAPS.get(maps, maps): an unknown code passes through.
maps_lookup_passthrough(maps) ==
    [raises |-> FALSE, value |-> IF maps \in DOMAIN MAPS THEN MAPS[maps] ELSE maps]

\* self.MAPS[maps]: the value, or the KeyError
maps_lookup(maps) ==
    IF maps \in DOMAIN MAPS
    THEN [raises |-> FALSE, value |-> MAPS[maps]]
    ELSE [raises |-> TRUE, value |-> maps]

\* d[key] = value that moves a key already present to the end.
dict_set_move_to_end(d, key, value) ==
    Append(SelectSeq(d, LAMBDA item : item[1] # key), <<key, value>>)

\* d[key] = value on an insertion-ordered dict
dict_set(d, key, value) ==
    IF \E i \in DOMAIN d : d[i][1] = key
    THEN [i \in DOMAIN d |-> IF d[i][1] = key THEN <<key, value>> ELSE d[i]]
    ELSE Append(d, <<key, value>>)

\* d[key]
dict_get(d, key) == d[CHOOSE i \in DOMAIN d : d[i][1] = key][2]

\* ' '.join(maps): the count ignored.
get_maps_all(maps, count) == join(<<" ">>, maps)

\* ' '.join(maps[:maps_played])
get_maps(maps, count) == join(<<" ">>, slice_to(maps, count))

----------------------------------------------------------------------------
(* json.dumps(match_results, indent=4, separators=(',', ':')) and          *)
(* json.loads(text, object_pairs_hook=OrderedDict).  The text is its       *)
(* sequence of tokens: the whitespace of indent=4 lies between tokens.     *)

Tok(kind, v) == [kind |-> kind, v |-> v]

LBRACE == Tok("punct", <<"{">>)

RBRACE == Tok("punct", <<"}">>)

COLON == Tok("punct", <<":">>)

COMMA == Tok("punct", <<",">>)

RECURSIVE escape(_)
\* The body of a JSON string literal for s.
escape(s) ==
    IF s = <<>> THEN <<>>
    ELSE (CASE Head(s) = "\"" -> <<"\\", "\"">>
            [] Head(s) = "\\" -> <<"\\", "\\">>
            [] Head(s) = "\n" -> <<"\\", "n">>
            [] Head(s) = "\t" -> <<"\\", "t">>
            [] OTHER -> <<Head(s)>>) \o escape(Tail(s))

RECURSIVE unescape(_)
unescape(s) ==
    IF s = <<>> THEN <<>>
    ELSE IF Head(s) = "\\" /\ Len(s) >= 2
    THEN (CASE s[2] = "n" -> <<"\n">>
            [] s[2] = "t" -> <<"\t">>
            [] OTHER -> <<s[2]>>) \o unescape(SubSeq(s, 3, Len(s)))
    ELSE <<Head(s)>> \o unescape(Tail(s))

RECURSIVE dumps_fields(_)
dumps_fields(d) ==
    IF d = <<>> THEN <<>>
    ELSE <<Tok("string", escape(d[1][1])), COLON, Tok("string", escape(d[1][2]))>>
         \o (IF Len(d) > 1 THEN <<COMMA>> ELSE <<>>) \o dumps_fields(Tail(d))

RECURSIVE dumps_items(_)
dumps_items(d) ==
    IF d = <<>> THEN <<>>
    ELSE <<Tok("string", escape(d[1][1])), COLON, LBRACE>>
         \o dumps_fields(d[1][2]) \o <<RBRACE>>
         \o (IF Len(d) > 1 THEN <<COMMA>> ELSE <<>>) \o dumps_items(Tail(d))

json_dumps(d) == <<LBRACE>> \o dumps_items(d) \o <<RBRACE>>

RECURSIVE pairs_to_dict(_, _)
pairs_to_dict(pairs, d) ==
    IF pairs = <<>> THEN d
    ELSE pairs_to_dict(Tail(pairs), dict_set(d, pairs[1][1], pairs[1][2]))

\* A hook that does not keep the order of the text.
object_pairs_hook_unordered(pairs) == Reverse(pairs_to_dict(pairs, <<>>))

\* object_pairs_hook=OrderedDict
object_pairs_hook(pairs) == pairs_to_dict(pairs, <<>>)

RECURSIVE parse_value(_, _), parse_members(_, _, _)
\* The value starting at token i, and the index of the token after it.
parse_value(toks, i) ==
    IF toks[i] = LBRACE
    THEN IF toks[i + 1] = RBRACE
         THEN [v |-> object_pairs_hook(<<>>), next |-> i + 2]
         ELSE parse_members(toks, i + 1, <<>>)
    ELSE [v |-> unescape(toks[i].v), next |-> i + 1]

parse_members(toks, i, pairs) ==
    LET key == unescape(toks[i].v)
        val == parse_value(toks, i + 2)
        got == Append(pairs, <<key, val.v>>)
    IN  IF toks[val.next] = COMMA
        THEN parse_members(toks, val.next + 1, got)
        ELSE [v |-> object_pairs_hook(got), next |-> val.next + 1]

json_loads(toks) == parse_value(toks, 1).v

----------------------------------------------------------------------------
(* What pprint passes to print(), call by call. *)

format_match(match) ==
    center(dict_get(match, <<"t", "e", "a", "m", "_", "o", "n", "e">>), 20) \o <<" ">>
        \o ljust(dict_get(match, <<"t", "e", "a", "m", "_", "o", "n", "e", "_", "s", "c", "o", "r", "e">>), 2) \o <<" ", "-", " ">>
        \o rjust(dict_get(match, <<"t", "e", "a", "m", "_", "t", "w", "o", "_", "s", "c", "o", "r", "e">>), 2) \o <<" ">>
        \o center(dict_get(match, <<"t", "e", "a", "m", "_", "t", "w", "o">>), 20) \o <<" ">>
        \o ljust(dict_get(match, <<"m", "a", "p", "s">>), 13)

NoResultsLine(date) == <<"N", "o", " ", "m", "a", "t", "c", "h", " ", "r", "e", "s", "u", "l", "t", "s", " ", "f", "o", "r", " ">> \o date

SummaryLine(date) == <<"\n", "C", "S", ":", "G", "O", " ", "m", "a", "t", "c", "h", " ", "r", "e", "s", "u", "l", "t", "s", " ", "f", "o", "r", " ">> \o date

PoweredLine == <<"P", "o", "w", "e", "r", "e", "d", " ", "b", "y", " ", "H", "L", "T", "V", ".", "o", "r", "g">>

\* pprint with the attribution line before the date summary.
pprint_output_attribution_first(res, date) ==
    IF res = <<>> THEN <<NoResultsLine(date), PoweredLine>>
    ELSE [i \in DOMAIN res |-> format_match(res[i][2])]
            \o <<PoweredLine, SummaryLine(date)>>

pprint_output(res, date) ==
    (IF res = <<>> THEN <<NoResultsLine(date)>>
     ELSE [i \in DOMAIN res |-> format_match(res[i][2])] \o <<SummaryLine(date)>>)
        \o <<PoweredLine>>

----------------------------------------------------------------------------
(* The state after CounterScrape() and the steps of a call of pprint(). *)

Send(u) == [e |-> "send", url |-> u, k |-> 0]

Recv(u) == [e |-> "recv", url |-> u, k |-> 0]

Insert(k) == [e |-> "insert", url |-> <<>>, k |-> k]

Init ==
    /\ now = 0
    /\ current_date = strftime(localtime(now))
    /\ pc = "idle"
    /\ soup = <<>>
    /\ retained = <<>>
    /\ idx = 0
    /\ status_code = 0
    /\ maps_played = 0
    /\ detail = <<>>
    /\ match_results = <<>>
    /\ results = <<>>
    /\ out = <<>>
    /\ err = NoErr
    /\ inflight = <<>>
    /\ events = <<>>
    /\ extracted = <<>>

\* Midnight passes on the host.
clock_tick ==
    /\ now < MaxTicks * SecPerDay
    /\ now' = now + SecPerDay
    /\ UNCHANGED <<current_date, pc, soup, retained, idx, status_code, maps_played, detail,
                   match_results, results, out, err, inflight, events, extracted>>

\* pprint() is called and get_results() sends the request for /results.
pprint_call ==
    /\ pc \in {"idle", "done", "error"}
    /\ pc' = "results_wait"
    /\ soup' = <<>>
    /\ retained' = <<>>
    /\ idx' = 0
    /\ status_code' = 0
    /\ maps_played' = 0
    /\ detail' = <<>>
    /\ match_results' = <<>>
    /\ results' = <<>>
    /\ out' = <<>>
    /\ err' = NoErr
    /\ inflight' = <<ResultsUrl>>
    /\ events' = <<Send(ResultsUrl)>>
    /\ extracted' = <<>>
    /\ UNCHANGED <<now, current_date>>

\* An exception leaves the frames of get_results, results_dict and pprint.
Raise(e) ==
    /\ pc' = "error"
    /\ err' = e

\* scrape() of /results returns or raises.
scrape_results ==
    /\ pc = "results_wait"
    /\ \E status \in Statuses :
        /\ inflight' = <<>>
        /\ status_code' = status
        /\ events' = Append(events, Recv(ResultsUrl))
        /\ \/ /\ raise_for_status(status)
              /\ Raise(HTTPError(status))
              /\ UNCHANGED <<soup, retained>>
           \/ /\ ~raise_for_status(status)
              /\ \E page \in ListingBodies(status) :
                    /\ soup' = page
                    /\ retained' = find_all(page)
              /\ pc' = "loop"
              /\ UNCHANGED err
    /\ UNCHANGED <<now, current_date, idx, maps_played, detail, match_results,
                   results, out, extracted>>

\* match_results[timestamp] = {...} for the match being handled.
Store(tag, maps) ==
    /\ match_results' = dict_set(match_results, tag.attrs[UNIX], match_record(tag, maps))
    /\ extracted' = Append(extracted, match_record(tag, maps))
    /\ idx' = idx + 1

\* One iteration of the loop of get_results, up to its request if it makes one.
get_results_match ==
    /\ pc = "loop"
    /\ idx < Len(retained)
    /\ LET tag == Nodes[retained[idx + 1]]
       IN  \/ /\ ~Extractable(tag)
              /\ Raise(AttributeError)
              /\ UNCHANGED <<idx, maps_played, match_results, inflight, events, extracted>>
           \/ /\ Extractable(tag)
              /\ is_best_of(tag.sub[".map-text"])
              /\ maps_played' = game_score(tag)
              /\ inflight' = Append(inflight, url \o tag.sub[".a-reset"])
              /\ events' = Append(events, Send(url \o tag.sub[".a-reset"]))
              /\ pc' = "maps_wait"
              /\ UNCHANGED <<idx, match_results, err, extracted>>
           \/ /\ Extractable(tag)
              /\ ~is_best_of(tag.sub[".map-text"])
              /\ ~maps_lookup(tag.sub[".map-text"]).raises
              /\ Store(tag, maps_lookup(tag.sub[".map-text"]).value)
              /\ events' = Append(events, Insert(idx + 1))
              /\ UNCHANGED <<pc, maps_played, err, inflight>>
           \/ /\ Extractable(tag)
              /\ ~is_best_of(tag.sub[".map-text"])
              /\ maps_lookup(tag.sub[".map-text"]).raises
              /\ Raise(KeyError(tag.sub[".map-text"]))
              /\ UNCHANGED <<idx, maps_played, match_results, inflight, events, extracted>>
    /\ status_code' = 0
    /\ detail' = <<>>
    /\ UNCHANGED <<now, current_date, soup, retained, results, out>>

\* scrape() of the detail page returns or raises; get_maps returns and the
\* iteration stores its record.
get_maps_response ==
    /\ pc = "maps_wait"
    /\ LET tag == Nodes[retained[idx + 1]]
           href == url \o tag.sub[".a-reset"]
       IN  \E status \in Statuses :
            /\ inflight' = Tail(inflight)
            /\ status_code' = status
            /\ \/ /\ raise_for_status(status)
                  /\ Raise(HTTPError(status))
                  /\ events' = Append(events, Recv(href))
                  /\ UNCHANGED <<idx, detail, match_results, extracted>>
               \/ /\ ~raise_for_status(status)
                  /\ \E page \in DetailBodies(status) :
                        /\ detail' = page
                        /\ Store(tag, get_maps(page, maps_played))
                  /\ events' = Append(Append(events, Recv(href)), Insert(idx + 1))
                  /\ pc' = "loop"
                  /\ UNCHANGED err
    /\ UNCHANGED <<now, current_date, soup, retained, maps_played, results, out>>

\* get_results returns json.dumps(...) and results_dict returns json.loads of it.
results_dict ==
    /\ pc = "loop"
    /\ idx = Len(retained)
    /\ results' = json_loads(json_dumps(match_results))
    /\ pc' = "print"
    /\ status_code' = 0
    /\ detail' = <<>>
    /\ UNCHANGED <<now, current_date, soup, retained, idx, maps_played, match_results,
                   out, err, inflight, events, extracted>>

\* The next print() of pprint.
pprint_print ==
    /\ pc = "print"
    /\ LET lines == pprint_output(results, current_date)
       IN  /\ out' = Append(out, lines[Len(out) + 1])
           /\ pc' = IF Len(out) + 1 = Len(lines) THEN "done" ELSE "print"
    /\ UNCHANGED <<now, current_date, soup, retained, idx, status_code, maps_played, detail,
                   match_results, results, err, inflight, events, extracted>>

Next ==
    \/ clock_tick
    \/ pprint_call
    \/ scrape_results
    \/ get_results_match
    \/ get_maps_response
    \/ results_dict
    \/ pprint_print

Spec == Init /\ [][Next]_vars


----------------------------------------------------------------------------
(* What the properties below speak of. *)

\* The date string of each element's timestamp.
NodeDate ==
    [id \in DOMAIN Nodes |->
        IF UNIX \in DOMAIN Nodes[id].attrs
        THEN convert_timestamp(Nodes[id].attrs[UNIX]) ELSE <<>>]

IsContainer(id) == Nodes[id].name = "div" /\ "result-con" \in Nodes[id].class

\* The result containers of a page dated `date`, in document order.
SameDay(page, date) ==
    SelectSeq(page, LAMBDA id : IsContainer(id) /\ NodeDate[id] = date)

Unix(id) == Nodes[id].attrs[UNIX]

MapsText(id) == Nodes[id].sub[".map-text"]

Href(id) == url \o Nodes[id].sub[".a-reset"]

\* get_results has returned to pprint.
Returned == pc \in {"print", "done"}

LastEvent == events[Len(events)]

----------------------------------------------------------------------------
\* C1 (as stated): once get_results has returned, the collection has as many
\* entries as the page has result containers whose timestamp converts to the
\* captured date, also when two of them carry the same timestamp.
C1_SizeIsContainerCount ==
    Returned => Len(match_results) = Len(SameDay(soup, current_date))

\* C1 (amended): once get_results has returned, the collection has as many
\* entries as there are distinct timestamps among the result containers whose
\* timestamp converts to the captured date; none when there is no such container.
C1_SizeIsDistinctTimestamps ==
    Returned =>
        LET day == SameDay(soup, current_date)
        IN  Len(match_results) = Cardinality({Unix(day[i]) : i \in DOMAIN day})

C1_Witness ==
    /\ Returned
    /\ Len(SameDay(soup, current_date)) = 3
    /\ Len(match_results) = 2

----------------------------------------------------------------------------
----------------------------------------------------------------------------
HasBo(id) == contains(<<"b", "o">>, MapsText(id))

\* get_results can build the record of this element without raising.
Resolvable(id) ==
    /\ Selectors \subseteq DOMAIN Nodes[id].sub
    /\ HasBo(id) \/ MapsText(id) \in DOMAIN MAPS

\* C3: a call in which the extraction of one same-day match fails (a code the
\* table lacks, a detail page answered 4xx/5xx, a missing child element) ends
\* with that exception, returns no collection and prints nothing, however many
\* matches were extracted before; and nothing is printed before all fetching
\* and extraction is over.
C3_NoPartialResults ==
    /\ (pc = "error") = (err.type # "None")
    /\ pc = "error" => (out = <<>> /\ results = <<>>)
    /\ out # <<>> => (Returned /\ idx = Len(retained) /\ inflight = <<>>)
    /\ Returned =>
        LET day == SameDay(soup, current_date)
        IN  /\ \A i \in DOMAIN day : Resolvable(day[i])
            /\ status_code \notin 400..599
            /\ Len(extracted) = Len(day)

C3_Witness ==
    /\ pc = "error"
    /\ err.type = "KeyError"
    /\ Len(extracted) = 2
    /\ Len(match_results) = 2

----------------------------------------------------------------------------
\* Where the record of the j-th handled match was stored.
InsPos(j) == CHOOSE p \in DOMAIN events : events[p] = Insert(j)

MapsOf(record) == dict_get(record, <<"m", "a", "p", "s">>)

\* C4: a handled same-day match whose maps text contains "bo" caused exactly
\* one detail request, answered before its record was stored, with the count
\* the sum of the two scores and the record's maps the value get_maps returned,
\* also when the text is a key of the table; one whose text does not caused no
\* request and its maps is the table's value, the call ending in KeyError when
\* the table lacks the text.  Every detail request and every KeyError comes
\* from a same-day container.
C4_FollowUpIffBestOf ==
    /\ \A j \in 1..idx :
        LET id == retained[j]
            p == InsPos(j)
        IN  IF HasBo(id)
            THEN /\ p > 3
                 /\ events[p - 2] = Send(Href(id))
                 /\ events[p - 1].e = "recv" /\ events[p - 1].url = Href(id)
                 /\ events[p - 3].e # "send"
                 /\ (p = Len(events) /\ pc = "loop") =>
                        /\ maps_played = game_score(Nodes[id])
                        /\ MapsOf(extracted[j]) = get_maps(detail, game_score(Nodes[id]))
            ELSE /\ events[p - 1].e = "insert" \/ p - 1 = 2
                 /\ MapsText(id) \in DOMAIN MAPS
                 /\ MapsOf(extracted[j]) = MAPS[MapsText(id)]
    /\ \A p \in 3..Len(events) :
        events[p].e = "send" =>
            \E i \in DOMAIN soup :
                /\ IsContainer(soup[i]) /\ NodeDate[soup[i]] = current_date
                /\ Resolvable(soup[i]) /\ HasBo(soup[i])
                /\ Href(soup[i]) = events[p].url
    /\ pc = "maps_wait" =>
        /\ HasBo(retained[idx + 1])
        /\ LastEvent = Send(Href(retained[idx + 1]))
        /\ maps_played = game_score(Nodes[retained[idx + 1]])
    /\ err.type = "KeyError" =>
        /\ NodeDate[retained[idx + 1]] = current_date
        /\ ~HasBo(retained[idx + 1])
        /\ MapsText(retained[idx + 1]) \notin DOMAIN MAPS
        /\ err.key = MapsText(retained[idx + 1])

C4_Witness ==
    /\ pc = "loop" /\ idx = 2 /\ Len(soup) = 3
    /\ \E i \in DOMAIN soup : IsContainer(soup[i]) /\ NodeDate[soup[i]] # current_date
    /\ ~HasBo(retained[1]) /\ HasBo(retained[2])
    /\ MapsText(retained[2]) \in DOMAIN MAPS
    /\ MapsOf(extracted[2]) = <<"M", "i", "r", "a", "g", "e", " ", "T", "r", "a", "i", "n">>

----------------------------------------------------------------------------
\* The same-day containers of the page, in document order.
Day == SameDay(soup, current_date)

IsBestOf(id) == ".map-text" \in DOMAIN Nodes[id].sub /\ HasBo(id)

\* The detail requests of the call, in the order sent.
DetailSends ==
    SelectSeq(SubSeq(events, 2, Len(events)), LAMBDA ev : ev.e = "send")

Inserts == SelectSeq(events, LAMBDA ev : ev.e = "insert")

InsertsBefore(p) == Cardinality({q \in 1..(p - 1) : events[q].e = "insert"})

SendsBefore(p) == Cardinality({q \in 2..(p - 1) : events[q].e = "send"})

\* The place among the retained matches of the n-th best-of match.
BestOfIndex(n) ==
    CHOOSE i \in DOMAIN retained :
        /\ IsBestOf(retained[i])
        /\ Cardinality({m \in 1..i : IsBestOf(retained[m])}) = n

\* C5: the matches are handled in document order; the request for /results is
\* the first of a call and is answered without raising before any detail
\* request (a raising answer is the end of the call); detail requests go
\* out one per best-of match in the document order of those matches; a request
\* is answered before anything else happens, so at most one is outstanding;
\* and the record of match k is stored after all requests up to match k's own
\* were answered and before the detail request of any later match.
C5_StrictlySequential ==
    /\ retained = Day
    /\ events # <<>> => events[1] = Send(ResultsUrl)
    /\ Len(events) >= 2 => events[2] = Recv(ResultsUrl)
    /\ (Len(events) = 2 /\ status_code \in 400..599) => pc = "error"
    /\ (pc = "error" /\ err.type = "HTTPError") => LastEvent.e = "recv"
    /\ Len(inflight) <= 1
    /\ inflight # <<>> => (LastEvent.e = "send" /\ inflight[1] = LastEvent.url)
    /\ \A p \in DOMAIN events :
        /\ events[p].e = "send" =>
            IF p = Len(events) THEN inflight = <<events[p].url>>
            ELSE events[p + 1].e = "recv" /\ events[p + 1].url = events[p].url
        /\ events[p].e = "recv" => (p > 1 /\ events[p - 1] = Send(events[p].url))
        /\ (events[p].e = "send" /\ p > 1) =>
            LET n == SendsBefore(p) + 1
            IN  /\ n <= Cardinality({m \in DOMAIN retained : IsBestOf(retained[m])})
                /\ events[p].url = Href(retained[BestOfIndex(n)])
                /\ InsertsBefore(p) = BestOfIndex(n) - 1
                /\ p + 2 <= Len(events) => events[p + 2] = Insert(BestOfIndex(n))
    /\ Len(Inserts) = idx
    /\ \A k \in DOMAIN Inserts : Inserts[k].k = k

C5_Witness ==
    /\ Returned
    /\ Len(DetailSends) = 2
    /\ DetailSends[1].url # DetailSends[2].url
    /\ Len(Inserts) = 3
    /\ ~IsBestOf(retained[2])

----------------------------------------------------------------------------
KeyAt(j) == Unix(retained[j])

\* The handled matches whose timestamp none before them carries.
FirstIdx ==
    SelectSeq([j \in 1..idx |-> j], LAMBDA j : \A i \in 1..(j - 1) : KeyAt(i) # KeyAt(j))

\* The last handled match with the timestamp of match j.
LastOf(j) ==
    CHOOSE m \in j..idx :
        KeyAt(m) = KeyAt(j) /\ \A n \in (m + 1)..idx : KeyAt(n) # KeyAt(j)

\* C6: the collection holds one entry per distinct timestamp of the handled
\* same-day matches, in the document order of each timestamp's first match,
\* and the entry's record is that of the last match with that timestamp; the
\* record built for the j-th match is that of the j-th same-day container.
C6_InsertionOrderLastWins ==
    /\ retained = Day
    /\ idx <= Len(retained)
    /\ Len(extracted) = idx
    /\ \A j \in 1..idx :
        /\ dict_get(extracted[j], <<"t", "e", "a", "m", "_", "o", "n", "e", "_", "s", "c", "o", "r", "e">>) = team_one_score(Nodes[retained[j]])
        /\ dict_get(extracted[j], <<"t", "e", "a", "m", "_", "t", "w", "o", "_", "s", "c", "o", "r", "e">>) = team_two_score(Nodes[retained[j]])
    /\ match_results =
        [n \in DOMAIN FirstIdx |->
            <<KeyAt(FirstIdx[n]), extracted[LastOf(FirstIdx[n])]>>]

C6_Witness ==
    /\ Returned
    /\ idx = 3
    /\ Len(match_results) = 2
    /\ KeyAt(1) = KeyAt(3)
    /\ match_results[1][1] = KeyAt(1)
    /\ int(match_results[1][1]) > int(match_results[2][1])
    /\ match_results[1][2] = extracted[3]
    /\ extracted[3] # extracted[1]

----------------------------------------------------------------------------
\* C7: for a non-empty collection built by get_results, what results_dict
\* parses from the text get_results returned is the collection itself: the same
\* keys in the same order, each with the same fields and values in the same order.
C7_RoundTrip ==
    (Returned /\ match_results # <<>>) => results = match_results

C7_Witness ==
    /\ Returned
    /\ Len(results) = 2
    /\ dict_get(results[1][2], <<"t", "e", "a", "m", "_", "o", "n", "e">>) = <<"N", "a", "\"", "V", "i">>
    /\ dict_get(results[2][2], <<"e", "v", "e", "n", "t">>) = <<"E", "S", "L", "\\", "P", "r", "o">>
    /\ int(results[1][1]) > int(results[2][1])

----------------------------------------------------------------------------
RECURSIVE PrefixJoined(_, _)
\* The first m of items, a space between neighbours.
PrefixJoined(items, m) ==
    IF m = 0 THEN <<>>
    ELSE IF m = 1 THEN items[1]
    ELSE PrefixJoined(items, m - 1) \o <<" ">> \o items[m]

\* get_maps has just returned and its record is stored.
GetMapsReturned ==
    /\ pc = "loop" /\ Len(events) > 3
    /\ LastEvent.e = "insert"
    /\ events[Len(events) - 1].e = "recv"
    /\ events[Len(events) - 1].url # ResultsUrl

\* C8: for a detail page of n map names and a count c, get_maps returns the
\* first min(c, n) names in document order with single spaces between them:
\* all n of them when c > n, the empty string when c = 0 or n = 0; and a detail
\* page answered with a status that does not raise never ends the call.
C8_GetMapsPrefix ==
    /\ GetMapsReturned =>
        LET n == Len(detail)
            tag == Nodes[retained[idx]]
            c == int(split(tag.sub[".result-score"])[1])
                    + int(split(tag.sub[".result-score"])[Len(split(tag.sub[".result-score"]))])
            r == MapsOf(extracted[idx])
        IN  /\ r = PrefixJoined(detail, IF c < n THEN c ELSE n)
            /\ c > n => r = PrefixJoined(detail, n)
            /\ (c = 0 \/ n = 0) => r = <<>>
    /\ \A p \in 3..Len(events) :
        (events[p].e = "recv" /\ ~(p = Len(events) /\ status_code \in 400..599)) =>
            (p < Len(events) /\ events[p + 1].e = "insert")

C8_Witness ==
    /\ GetMapsReturned
    /\ Len(detail) = 1
    /\ maps_played = 2
    /\ MapsOf(extracted[idx]) = <<"M", "i", "r", "a", "g", "e">>

----------------------------------------------------------------------------
\* C9: after a successful fetch pprint has printed, when it is done, the "No
\* match results for <date>" line and the attribution line for an empty
\* collection, and otherwise one line per record in the collection's order,
\* then the date summary, then the attribution line; the attribution line is
\* printed once and last, and nothing is printed outside of printing.
C9_PrintedLines ==
    LET k == Len(results)
    IN  /\ pc = "done" =>
            /\ IF k = 0
               THEN out = <<NoResultsLine(current_date), PoweredLine>>
               ELSE /\ Len(out) = k + 2
                    /\ \A i \in 1..k : out[i] = format_match(results[i][2])
                    /\ out[k + 1] = SummaryLine(current_date)
                    /\ out[k + 2] = PoweredLine
            /\ Cardinality({i \in DOMAIN out : out[i] = PoweredLine}) = 1
        /\ pc = "print" =>
            /\ Len(out) < (IF k = 0 THEN 2 ELSE k + 2)
            /\ \A i \in DOMAIN out :
                /\ out[i] # PoweredLine
                /\ i <= k => out[i] = format_match(results[i][2])
                /\ i > k => out[i] = (IF k = 0 THEN NoResultsLine(current_date)
                                      ELSE SummaryLine(current_date))
        /\ pc \notin {"print", "done"} => out = <<>>

C9_Witness ==
    /\ pc = "done"
    /\ Len(results) = 2
    /\ Len(out) = 4
    /\ out[4] = PoweredLine

----------------------------------------------------------------------------
\* The date string of the instant of construction.
ConstructionDate == <<"0", "1", " ", "J", "a", "n", "u", "a", "r", "y", " ", "1", "9", "7", "0">>

\* C10: the captured date is the one of the construction in every state, after
\* any operation, successful or not, and whatever the host's clock says; the
\* matches retained are the containers of that date, and the date printed is it.
C10_DateCapturedOnce ==
    /\ current_date = ConstructionDate
    /\ retained = SelectSeq(soup, LAMBDA id : IsContainer(id) /\ NodeDate[id] = ConstructionDate)
    /\ \A i \in DOMAIN out :
        \/ i <= Len(results) /\ out[i] = format_match(results[i][2])
        \/ out[i] = NoResultsLine(ConstructionDate)
        \/ out[i] = SummaryLine(ConstructionDate)
        \/ out[i] = PoweredLine

C10_Witness ==
    /\ strftime(localtime(now)) # current_date
    /\ pc = "done"
    /\ Len(retained) = 2
    /\ \E i \in DOMAIN soup :
        IsContainer(soup[i]) /\ NodeDate[soup[i]] = strftime(localtime(now))
    /\ out[3] = SummaryLine(ConstructionDate)
=============================================================================
